---- MODULE Spec2Model ----
(***************************************************************************)
(* A model of src/parse.rs: the decoder of the binary sprite layout        *)
(* ("lay") file.  parse_lay peeks the first four bytes of the file,        *)
(* rewinds, chooses the raw or the zlib reader, and parse_lay_impl reads   *)
(* the header, the sprite records and the chunk records and assembles the  *)
(* ParsedLay.                                                              *)
(*                                                                         *)
(* Bytes are naturals in 0..255 and a stream is a sequence of bytes.       *)
(* u32 values are kept as two 16-bit limbs, i32 values as integers in      *)
(* -2^31 .. 2^31-1 with explicit wrapping arithmetic, and an f32 is the    *)
(* four bytes of its IEEE-754 bit pattern, decoded field by field.         *)
(***************************************************************************)
EXTENDS Integers, Sequences, FiniteSets, TLC

(***************************************************************************)
(* Bounds of the explored inputs.                                          *)
(***************************************************************************)
MaxSprites == 2
MaxChunks == 2

(***************************************************************************)
(* Program constants (parse.rs lines 9-14).                                *)
(***************************************************************************)
HEADER_SZ == 4 * 2
SPRITE_SZ == 4 * 3
CHUNK_SZ == 4 * 4
SPRITE_SIZE_PAD == 32
SPRITES_MAX_RAW == 65536

(***************************************************************************)
(* Machine integers.                                                       *)
(***************************************************************************)
I32_MAX == (32767 * 65536) + 65535
I32_MIN == (-I32_MAX) - 1

RECURSIVE Pow2(_)
Pow2(n) == IF n = 0 THEN 1 ELSE 2 * Pow2(n - 1)

\* a u32 as its high and low 16-bit halves
U32(h, l) == [hi |-> h, lo |-> l]
ToU32(n) == U32(n \div 65536, n % 65536)
LtU32(a, b) == a.hi < b.hi \/ (a.hi = b.hi /\ a.lo < b.lo)
GtU32(a, b) == LtU32(b, a)

\* i32 + i32 in a build without overflow checks (two's complement wrap)
AddOverflowsI32(a, b) ==
    \/ (a > 0 /\ b > 0 /\ a > I32_MAX - b)
    \/ (a < 0 /\ b < 0 /\ a < I32_MIN - b)
WrappingAddI32(a, b) ==
    IF a > 0 /\ b > 0 /\ a > I32_MAX - b
    THEN ((a - (I32_MAX - b)) - 1) + I32_MIN
    ELSE IF a < 0 /\ b < 0 /\ a < I32_MIN - b
    THEN (a - I32_MIN) + (b - I32_MIN)
    ELSE a + b
\* i32::abs: i32::MIN has no absolute value; without overflow checks it
\* is returned unchanged
AbsOverflowsI32(a) == a = I32_MIN
WrappingAbsI32(a) == IF a = I32_MIN THEN I32_MIN ELSE IF a < 0 THEN -a ELSE a
\* `x as u32` for an i32 x: the same 32 bits read as unsigned
I32AsU32(a) ==
    IF a >= 0 THEN ToU32(a)
    ELSE U32(32768 + ((a - I32_MIN) \div 65536), (a - I32_MIN) % 65536)
MaxI32(a, b) == IF a >= b THEN a ELSE b
MinI32(a, b) == IF a <= b THEN a ELSE b

(***************************************************************************)
(* Readers of little-endian values from a byte slice.                      *)
(***************************************************************************)
\* byteorder read_u32::<LittleEndian> on the four bytes b
read_u32_le(b) == U32(b[3] + 256 * b[4], b[1] + 256 * b[2])

\* the fields of the f32 whose little-endian bytes are b
F32Sign(b) == b[4] \div 128
F32Exp(b) == ((b[4] % 128) * 2) + (b[3] \div 128)
F32Mant(b) == ((b[3] % 128) * 65536) + (b[2] * 256) + b[1]
F32IsNan(b) == F32Exp(b) = 255 /\ F32Mant(b) # 0
F32IsInfinite(b) == F32Exp(b) = 255 /\ F32Mant(b) = 0
\* f.fract() != 0f32
F32HasFract(b) ==
    IF F32Exp(b) = 255 THEN TRUE
    ELSE IF F32Exp(b) = 0 THEN F32Mant(b) # 0
    ELSE IF F32Exp(b) < 127 THEN TRUE
    ELSE IF F32Exp(b) >= 127 + 23 THEN FALSE
    ELSE (F32Mant(b) % Pow2(23 - (F32Exp(b) - 127))) # 0
\* `f as i32`: truncation toward zero, saturating at the i32 range, NaN to 0
F32AsI32(b) ==
    LET e == F32Exp(b) - 127
        sig == 8388608 + F32Mant(b)
    IN  IF F32IsNan(b) THEN 0
        ELSE IF e < 0 THEN 0
        ELSE IF e >= 31 THEN (IF F32Sign(b) = 1 THEN I32_MIN ELSE I32_MAX)
        ELSE LET mag == IF e <= 23 THEN sig \div Pow2(23 - e)
                        ELSE sig * Pow2(e - 23)
             IN  IF F32Sign(b) = 1 THEN -mag ELSE mag

\* results of the fallible steps
IoErr == [kind |-> "Io"]
FmtErr(m, a) == [kind |-> "Fmt", msg |-> m, arg |-> a]
Ok(v) == [ok |-> TRUE, val |-> v]
Err(e) == [ok |-> FALSE, err |-> e]

\* read_f32_le_to_i32 on the four bytes b
read_f32_le_to_i32(b) ==
    IF F32IsNan(b) \/ F32IsInfinite(b) THEN Err(FmtErr("unsuitable f32", b))
    ELSE IF F32HasFract(b) THEN Err(FmtErr("f32 has fract part", b))
    ELSE Ok(F32AsI32(b))

\* Read::read_exact of n bytes from the stream s: the bytes, or a short read
CanRead(s, n) == Len(s) >= n
Take(s, n) == SubSeq(s, 1, n)
Drop(s, n) == SubSeq(s, n + 1, Len(s))

(***************************************************************************)
(* Sprite classification (the match on head[3]).                           *)
(***************************************************************************)
Base == [tag |-> "Base"]
Sub == [tag |-> "Sub"]
Overlay == [tag |-> "Overlay"]
Dep(t, d) == [tag |-> "Dep", exact_type |-> t, depends_on |-> d]

\* a classifier that takes the dependency id from the flags byte
SpriteTOf_DepFromFlags(head) ==
    LET type_id == head[4]
    IN  CASE type_id = 0 -> Base
          [] type_id = 32 -> Sub
          [] type_id \in {64, 48, 96} -> Dep(type_id, head[3])
          [] type_id = 80 -> Overlay
          [] OTHER -> [tag |-> "Unknown"]
SpriteTOf(head) ==
    LET type_id == head[4]
    IN  CASE type_id = 0 -> Base
          [] type_id = 32 -> Sub
          [] type_id \in {64, 48, 96} -> Dep(type_id, head[2])
          [] type_id = 80 -> Overlay
          [] OTHER -> [tag |-> "Unknown"]

\* the diagnostics of one accepted sprite record
SpriteWarnings(st, head) ==
    CASE st.tag = "Sub" -> << >>
      [] st.tag = "Overlay" ->
            IF head[2] # 0 \/ head[3] # 16 THEN <<"W overlay head">> ELSE << >>
      [] OTHER ->
            IF head[3] # 0 THEN <<"W sprite head">> ELSE << >>

\* HashMap::insert: a map as a function on the set of its keys
MapInsert(m, k, v) == [x \in (DOMAIN m) \cup {k} |-> IF x = k THEN v ELSE m[x]]
EmptyMap == [x \in {} |-> 0]

(***************************************************************************)
(* The explored inputs: lay files built record by record, cut short at     *)
(* every length, and with first words on both sides of the detection       *)
(* threshold.                                                              *)
(***************************************************************************)
\* the little-endian bytes of a small natural
Byte4(n) == <<n % 256, (n \div 256) % 256, (n \div 65536) % 256, n \div 16777216>>

\* f32 bit patterns, as little-endian bytes
F_5 == <<0, 0, 160, 64>>            \* 5.0
F_m3 == <<0, 0, 64, 192>>           \* -3.0
F_20 == <<0, 0, 160, 65>>           \* 20.0
F_m10 == <<0, 0, 32, 193>>          \* -10.0
F_15 == <<0, 0, 112, 65>>           \* 15.0
F_m5 == <<0, 0, 160, 192>>          \* -5.0
F_mzero == <<0, 0, 0, 128>>         \* -0.0
F_2p31 == <<0, 0, 0, 79>>           \* 2147483648.0
F_m2p31 == <<0, 0, 0, 207>>         \* -2147483648.0
F_big == <<255, 255, 255, 78>>      \* 2147483520.0, the largest f32 below 2^31
F_3e9 == <<94, 208, 50, 79>>        \* 3000000000.0
F_1p5 == <<0, 0, 192, 63>>          \* 1.5
F_tiny == <<1, 0, 0, 0>>            \* the smallest subnormal
F_nan == <<0, 0, 192, 127>>         \* NaN
F_inf == <<0, 0, 128, 127>>         \* +Infinity
F_minf == <<0, 0, 128, 255>>        \* -Infinity

ValidF32 == {F_5, F_m3, F_2p31, F_m2p31}
InvalidF32 == {F_1p5, F_nan, F_inf}

TypeTags == {0, 32, 48, 64, 80, 96, 112, 255}
SpriteRec(id, aux, flags, tag) == <<id, aux, flags, tag>> \o Byte4(258) \o Byte4(1)
SpriteRecs ==
    {SpriteRec(5, 9, 16, t) : t \in TypeTags}
    \cup {SpriteRec(7, 0, 0, t) : t \in {0, 32, 48, 64, 80, 96}}
    \cup {SpriteRec(7, 0, 16, 80)}

ChunkRec(a, b, c, d) == a \o b \o c \o d
ChunkRecs ==
    {ChunkRec(a, F_m3, F_m3, F_5) : a \in ValidF32}
    \cup {ChunkRec(F_5, b, F_m3, F_5) : b \in ValidF32}
    \cup {ChunkRec(F_5, F_5, F_3e9, F_m2p31), ChunkRec(F_big, F_mzero, F_5, F_5)}
    \cup {ChunkRec(v, F_5, F_5, F_5) : v \in InvalidF32 \cup {F_minf, F_tiny}}
    \cup {ChunkRec(F_5, F_1p5, F_5, F_5), ChunkRec(F_5, F_5, F_nan, F_5),
          ChunkRec(F_5, F_5, F_5, F_inf), ChunkRec(F_5, F_5, F_5, F_1p5)}
    \cup {ChunkRec(F_1p5, F_nan, F_5, F_5), ChunkRec(F_5, F_inf, F_1p5, F_5),
          ChunkRec(F_5, F_5, F_nan, F_1p5)}

RECURSIVE Concat(_, _)
Concat(f, k) == IF k = 0 THEN << >> ELSE Concat(f, k - 1) \o f[k]

Header(sc, cc) == Byte4(sc) \o Byte4(cc)

\* files rich in sprite records, without chunks
SpriteFiles ==
    UNION {{Header(k, 0) \o Concat(recs, k) : recs \in [1..k -> SpriteRecs]} : k \in 0..MaxSprites}
\* files rich in chunk records, behind a Base and a Sub sprite
TwoSprites == SpriteRec(0, 0, 0, 0) \o SpriteRec(5, 0, 0, 32)
ChunkFiles ==
    UNION {{Header(2, k) \o TwoSprites \o Concat(recs, k) : recs \in [1..k -> ChunkRecs]}
           : k \in 0..MaxChunks}
\* a well-formed file (two sprites, two chunks) and everything after its header
Body == TwoSprites \o ChunkRec(F_m10, F_m5, F_5, F_5) \o ChunkRec(F_20, F_15, F_5, F_5)
WellFormed == Header(2, 2) \o Body
Prefixes(s) == {SubSeq(s, 1, n) : n \in 0..Len(s)}
\* files whose counts disagree with what follows
Mismatched ==
    {Header(sc, cc) \o Body : sc \in 0..3, cc \in 0..3}
    \cup {Header(0, cc) \o rest : cc \in {0, 1, 65537}, rest \in {<< >>, <<1, 2, 3>>, Body}}
    \cup {Header(1, 1) \o SpriteRec(5, 7, 0, 80) \o SpriteRec(0, 0, 0, 0)
            \o ChunkRec(F_5, F_5, F_5, F_5),
          Header(2, 1) \o SpriteRec(5, 7, 0, 80) \o SpriteRec(0, 0, 0, 0)
            \o ChunkRec(F_5, F_5, F_5, F_5)}
\* first words around the detection threshold
FirstWords ==
    {<<2, 0, 0, 0>>, <<255, 255, 0, 0>>, <<0, 0, 1, 0>>, <<1, 0, 1, 0>>, <<0, 1, 1, 0>>,
     <<120, 156, 0, 0>>, <<120, 156, 99, 96>>, <<0, 0, 0, 128>>, <<255, 255, 255, 255>>}

NoInflate == [ok |-> FALSE, bytes |-> << >>]
Inflated(s) == [ok |-> TRUE, bytes |-> s]
\* what the zlib decoder makes of a compressed file: a refusal or a byte stream
Inflations ==
    {NoInflate} \cup {Inflated(s) : s \in Prefixes(WellFormed)}
    \cup {Inflated(Header(2, 2) \o TwoSprites \o ChunkRec(F_2p31, F_5, F_5, F_5)
                   \o ChunkRec(F_m2p31, F_5, F_5, F_5)),
          Inflated(Header(0, 1) \o Body),
          Inflated(Byte4(131072) \o Byte4(1) \o Body)}

Input(f, p, z) == [file |-> f, start |-> p, inflated |-> z]
StartPositions == {0, 4}
\* whether the detector will take the file at start position p as compressed
Compressed(f, p) ==
    /\ Len(f) >= p + 4
    /\ (f[p + 4] # 0 \/ f[p + 3] > 1 \/ (f[p + 3] = 1 /\ (f[p + 2] # 0 \/ f[p + 1] # 0)))
Inputs ==
    {Input(f, 0, NoInflate) : f \in SpriteFiles \cup ChunkFiles}
    \cup UNION {{Input(f, p, z) : z \in IF ~Compressed(f, p) THEN {NoInflate}
                                         ELSE IF p = 0 THEN Inflations
                                         ELSE {NoInflate, Inflated(WellFormed)}}
                : f \in Prefixes(WellFormed) \cup Mismatched
                        \cup {w \o Byte4(1) \o Body : w \in FirstWords}
                        \cup {Byte4(2) \o w \o Body : w \in FirstWords},
                  p \in StartPositions}

(***************************************************************************)
(* State.                                                                  *)
(***************************************************************************)
VARIABLES
    file,          \* the bytes of lay_file
    start,         \* the position of lay_file when parse_lay is called
    inflated,      \* what zlib::Decoder yields for this file
    fpos,          \* the position of lay_file
    pre_read,      \* parse_lay: the peeked word
    kind,          \* "none", "raw" or "zlib": the reader handed to parse_lay_impl
    bf,            \* parse_lay_impl: the bytes the reader has still to yield
    c_buf,         \* the scratch buffer: the record read last
    sprite_count, chunk_count,
    sprites, sub_map, head, base_dep,
    chunks, sprite_max_x, sprite_min_x, sprite_max_y, sprite_min_y,
    i,             \* the running loop's counter
    diag,          \* the lines written to stderr
    pc,            \* the stage parse_lay is at, or ended in
    result         \* what parse_lay returned, once it has

input == <<file, start, inflated>>
detect == <<fpos, pre_read, kind>>
spr == <<sprites, sub_map, head, base_dep>>
chk == <<chunks, sprite_max_x, sprite_min_x, sprite_max_y, sprite_min_y>>
hdr == <<sprite_count, chunk_count>>
vars == <<input, detect, bf, c_buf, hdr, spr, chk, i, diag, pc, result>>

Running == [tag |-> "None"]
Returned(r) == IF r.ok THEN [tag |-> "Ok", lay |-> r.val] ELSE [tag |-> "Err", err |-> r.err]
Panicked == [tag |-> "Panic"]

Init ==
    /\ \E inp \in Inputs :
        /\ file = inp.file
        /\ start = inp.start
        /\ inflated = inp.inflated
    /\ fpos = start
    /\ pre_read = ToU32(0)
    /\ kind = "none"
    /\ bf = << >>
    /\ c_buf = << >>
    /\ sprite_count = ToU32(0)
    /\ chunk_count = ToU32(0)
    /\ sprites = << >>
    /\ sub_map = EmptyMap
    /\ head = << >>
    /\ base_dep = << >>
    /\ chunks = << >>
    /\ sprite_max_x = 0
    /\ sprite_min_x = 0
    /\ sprite_max_y = 0
    /\ sprite_min_y = 0
    /\ i = 0
    /\ diag = << >>
    /\ pc = "peek"
    /\ result = Running

(***************************************************************************)
(* parse_lay                                                               *)
(***************************************************************************)
\* line 72: read_u32_le(lay_file)?
Peek ==
    /\ pc = "peek" /\ result = Running
    /\ IF Len(file) >= fpos + 4
       THEN /\ pre_read' = read_u32_le(SubSeq(file, fpos + 1, fpos + 4))
            /\ fpos' = fpos + 4
            /\ pc' = "rewind"
            /\ UNCHANGED result
       ELSE /\ result' = Returned(Err(IoErr))
            /\ fpos' = IF Len(file) > fpos THEN Len(file) ELSE fpos
            /\ UNCHANGED <<pre_read, pc>>
    /\ UNCHANGED <<input, kind, bf, c_buf, hdr, spr, chk, i, diag>>

\* the position lay_file.seek(SeekFrom::Start(0)) leaves the file at
SeekTarget(p) == 0
\* a detector that takes the threshold itself as compressed
IsCompressed_AtThreshold(v) == ~LtU32(v, ToU32(SPRITES_MAX_RAW))
\* pre_read > SPRITES_MAX_RAW
IsCompressed(v) == GtU32(v, ToU32(SPRITES_MAX_RAW))

\* lines 73-84: the rewind, the detection and the construction of the reader
Rewind ==
    /\ pc = "rewind" /\ result = Running
    /\ fpos' = SeekTarget(start)
    /\ IF IsCompressed(pre_read)
       THEN /\ diag' = Append(diag, "I Compressed lay")
            /\ IF inflated.ok
               THEN /\ kind' = "zlib"
                    /\ bf' = inflated.bytes
                    /\ pc' = "header"
                    /\ UNCHANGED result
               ELSE /\ result' = Returned(Err([kind |-> "Zlib"]))
                    /\ UNCHANGED <<kind, bf, pc>>
       ELSE /\ diag' = Append(diag, "I Raw lay")
            /\ kind' = "raw"
            /\ bf' = Drop(file, fpos')
            /\ pc' = "header"
            /\ UNCHANGED result
    /\ UNCHANGED <<input, pre_read, c_buf, hdr, spr, chk, i>>
(***************************************************************************)
(* parse_lay_impl                                                          *)
(***************************************************************************)
\* lines 92-103: the header, and the empty sprite vector and map
ReadHeader ==
    /\ pc = "header" /\ result = Running
    /\ IF CanRead(bf, HEADER_SZ)
       THEN LET buf == Take(bf, HEADER_SZ)
            IN  /\ c_buf' = buf
                /\ bf' = Drop(bf, HEADER_SZ)
                /\ sprite_count' = read_u32_le(SubSeq(buf, 1, 4))
                /\ chunk_count' = read_u32_le(SubSeq(buf, 5, 8))
                /\ sprites' = << >>
                /\ sub_map' = EmptyMap
                /\ i' = 0
                /\ pc' = "sprites"
                /\ UNCHANGED result
       ELSE /\ result' = Returned(Err(IoErr))
            /\ bf' = << >>
            /\ UNCHANGED <<c_buf, hdr, sprites, sub_map, i, pc>>
    /\ UNCHANGED <<input, detect, head, base_dep, chk, diag>>

\* a loop over 0..=count
LoopContinues_Inclusive(n, count) == ~LtU32(count, ToU32(n))
\* `for _i in 0..count`: whether the iteration numbered i runs
LoopContinues(n, count) == LtU32(ToU32(n), count)

\* the Sprite built from one 12-byte record whose type is known
SpriteOf(buf) ==
    [sprite_type |-> SpriteTOf(SubSeq(buf, 1, 4)),
     id |-> buf[1],
     chunk_offset |-> read_u32_le(SubSeq(buf, 5, 8)),
     chunk_count |-> read_u32_le(SubSeq(buf, 9, 12))]

\* a map that keeps the first index of an id
SubMapAfter_FirstWins(m, s, index) ==
    IF s.sprite_type.tag = "Sub" /\ s.id \notin DOMAIN m THEN MapInsert(m, s.id, index) ELSE m
\* lines 129-132: the sub_map after the sprite s has been classified
SubMapAfter(m, s, index) ==
    IF s.sprite_type.tag = "Sub" THEN MapInsert(m, s.id, index) ELSE m

\* lines 106-142: one iteration of the sprite loop
ReadSprite ==
    /\ pc = "sprites" /\ result = Running
    /\ LoopContinues(i, sprite_count)
    /\ IF CanRead(bf, SPRITE_SZ)
       THEN LET buf == Take(bf, SPRITE_SZ)
                hd == SubSeq(buf, 1, 4)
                s == SpriteOf(buf)
            IN  /\ c_buf' = buf
                /\ bf' = Drop(bf, SPRITE_SZ)
                /\ head' = hd
                /\ IF s.sprite_type.tag = "Unknown"
                   THEN /\ result' = Returned(Err(FmtErr("Unknown sprite type", <<hd[4]>>)))
                        /\ UNCHANGED <<sprites, sub_map, i, diag>>
                   ELSE /\ sub_map' = SubMapAfter(sub_map, s, Len(sprites))
                        /\ diag' = diag \o SpriteWarnings(s.sprite_type, hd)
                        /\ sprites' = Append(sprites, s)
                        /\ i' = i + 1
                        /\ UNCHANGED result
       ELSE /\ result' = Returned(Err(IoErr))
            /\ bf' = << >>
            /\ UNCHANGED <<c_buf, sprites, sub_map, head, i, diag>>
    /\ UNCHANGED <<input, detect, hdr, base_dep, chk, pc>>

\* a detection that looks for a Base sprite at every index
BaseDepOf_AnyBase(ss) ==
    IF \E k \in 1..Len(ss) : ss[k].sprite_type = Base THEN <<0>> ELSE << >>
\* lines 149-152
BaseDepOf(ss) == IF ss[1].sprite_type = Base THEN <<0>> ELSE << >>

\* lines 144-158: after the sprite loop
CheckSprites ==
    /\ pc = "sprites" /\ result = Running
    /\ ~LoopContinues(i, sprite_count)
    /\ IF sprites = << >>
       THEN /\ result' = Returned(Err(FmtErr("no sprites", << >>)))
            /\ UNCHANGED <<base_dep, chk, i, pc>>
       ELSE /\ base_dep' = BaseDepOf(sprites)
            /\ chunks' = << >>
            /\ sprite_max_x' = 0
            /\ sprite_min_x' = 0
            /\ sprite_max_y' = 0
            /\ sprite_min_y' = 0
            /\ i' = 0
            /\ pc' = "chunks"
            /\ UNCHANGED result
    /\ UNCHANGED <<input, detect, bf, c_buf, hdr, sprites, sub_map, head, diag>>

\* lines 166-169: the four conversions of one 16-byte record, in field order;
\* the first that fails ends them
ChuOf(buf) ==
    LET r == [k \in 1..4 |-> read_f32_le_to_i32(SubSeq(buf, (4 * k) - 3, 4 * k))]
        bad == {k \in 1..4 : ~r[k].ok}
    IN  IF bad = {}
        THEN Ok([k \in 1..4 |-> r[k].val])
        ELSE r[CHOOSE k \in bad : \A j \in bad : k <= j]

\* lines 171-182
ChunkOf(chu) == [img_x |-> chu[1], img_y |-> chu[2], chunk_x |-> chu[3], chunk_y |-> chu[4]]
BoxMax(acc, v) == MaxI32(acc, v)
\* a minimum accumulated with max
BoxMin_AsMax(acc, v) == MaxI32(acc, v)
BoxMin(acc, v) == MinI32(acc, v)

\* lines 161-185: one iteration of the chunk loop
ReadChunk ==
    /\ pc = "chunks" /\ result = Running
    /\ LoopContinues(i, chunk_count)
    /\ IF CanRead(bf, CHUNK_SZ)
       THEN LET buf == Take(bf, CHUNK_SZ)
                chu == ChuOf(buf)
            IN  /\ c_buf' = buf
                /\ bf' = Drop(bf, CHUNK_SZ)
                /\ IF chu.ok
                   THEN LET c == ChunkOf(chu.val)
                        IN  /\ sprite_max_x' = BoxMax(sprite_max_x, c.img_x)
                            /\ sprite_min_x' = BoxMin(sprite_min_x, c.img_x)
                            /\ sprite_max_y' = BoxMax(sprite_max_y, c.img_y)
                            /\ sprite_min_y' = BoxMin(sprite_min_y, c.img_y)
                            /\ chunks' = Append(chunks, c)
                            /\ i' = i + 1
                            /\ UNCHANGED result
                   ELSE /\ result' = Returned(chu)
                        /\ UNCHANGED <<chk, i>>
       ELSE /\ result' = Returned(Err(IoErr))
            /\ bf' = << >>
            /\ UNCHANGED <<c_buf, chk, i>>
    /\ UNCHANGED <<input, detect, hdr, spr, diag, pc>>

\* lines 187-188: max + min.abs() + SPRITE_SIZE_PAD in i32.  A build with
\* overflow checks panics where the exact value leaves the i32 range; a
\* build without them wraps.
SizeOverflows(max, min) ==
    \/ AbsOverflowsI32(min)
    \/ AddOverflowsI32(max, WrappingAbsI32(min))
    \/ AddOverflowsI32(WrappingAddI32(max, WrappingAbsI32(min)), SPRITE_SIZE_PAD)
SizeOf(max, min) ==
    WrappingAddI32(WrappingAddI32(max, WrappingAbsI32(min)), SPRITE_SIZE_PAD)

\* lines 190-199
LayOf(w, h) ==
    [chunks |-> chunks,
     sprites |-> sprites,
     sub_map |-> sub_map,
     base_dep |-> base_dep,
     sprite_w |-> I32AsU32(w),
     sprite_h |-> I32AsU32(h),
     sprite_xy_min |-> <<sprite_min_x, sprite_min_y>>,
     sprite_xy_max |-> <<sprite_max_x, sprite_max_y>>]

\* lines 187-201: after the chunk loop
Assemble ==
    /\ pc = "chunks" /\ result = Running
    /\ ~LoopContinues(i, chunk_count)
    /\ \E overflow_checks \in BOOLEAN :
        IF overflow_checks /\ (\/ SizeOverflows(sprite_max_x, sprite_min_x)
                               \/ SizeOverflows(sprite_max_y, sprite_min_y))
        THEN /\ result' = Panicked
             /\ UNCHANGED pc
        ELSE /\ result' = Returned(Ok(LayOf(SizeOf(sprite_max_x, sprite_min_x),
                                            SizeOf(sprite_max_y, sprite_min_y))))
             /\ pc' = "done"
    /\ UNCHANGED <<input, detect, bf, c_buf, hdr, spr, chk, i, diag>>

Next ==
    \/ Peek
    \/ Rewind
    \/ ReadHeader
    \/ ReadSprite
    \/ CheckSprites
    \/ ReadChunk
    \/ Assemble

Spec == Init /\ [][Next]_vars
(***************************************************************************)
(* Properties.                                                             *)
(***************************************************************************)
Terminated == result # Running
\* the byte stream parse_lay_impl was handed
ImplStream == IF kind = "zlib" THEN inflated.bytes ELSE file

SetMax(S) == CHOOSE x \in S : \A y \in S : y <= x
SetMin(S) == CHOOSE x \in S : \A y \in S : x <= y
AtMost(u, cap) == IF u.hi > 0 \/ u.lo > cap THEN cap ELSE u.lo

\* the f32 with bytes b is NaN or infinite: all exponent bits set
NonFinite(b) == b[4] % 128 = 127 /\ b[3] >= 128
\* the finite f32 with bytes b is a whole number
Integral(b) ==
    LET e == (((b[4] % 128) * 2) + (b[3] \div 128)) - 127
        m == ((b[3] % 128) * 65536) + (b[2] * 256) + b[1]
    IN  \/ (e = -127 /\ m = 0)
        \/ e >= 23
        \/ (e >= 0 /\ e < 23
              /\ ((8388608 + m) \div Pow2(23 - e)) * Pow2(23 - e) = 8388608 + m)
\* the integer v is the value of the finite f32 with bytes b
IntegerIs(v, b) ==
    LET e == (((b[4] % 128) * 2) + (b[3] \div 128)) - 127
        m == ((b[3] % 128) * 65536) + (b[2] * 256) + b[1]
        neg == b[4] >= 128
        a == IF v < 0 THEN -(v + 1) ELSE v - 1      \* |v| - 1, free of overflow
    IN  IF e = -127 THEN m = 0 /\ v = 0
        ELSE IF e < 0 THEN FALSE
        ELSE IF e >= 31 THEN neg /\ e = 31 /\ m = 0 /\ v = I32_MIN
        ELSE /\ v # 0
             /\ (v < 0) = neg
             /\ a \div Pow2(e) = 1 /\ a + 1 < Pow2(e + 1)
             /\ IF e <= 23 THEN (a + 1) * Pow2(23 - e) = 8388608 + m
                ELSE (a + 1) = (8388608 + m) * Pow2(e - 23)
\* the error a chunk field with bytes b deserves, if any
FieldError(b) ==
    IF NonFinite(b) THEN <<FmtErr("unsuitable f32", b)>>
    ELSE IF ~Integral(b) THEN <<FmtErr("f32 has fract part", b)>>
    ELSE << >>

\* what the format prescribes for the stream s: the first failure in stage
\* order, or success
Expected(s) ==
    IF Len(s) < 8 THEN <<IoErr>>
    ELSE
    LET sc == U32(s[3] + (256 * s[4]), s[1] + (256 * s[2]))
        cc == U32(s[7] + (256 * s[8]), s[5] + (256 * s[6]))
        nS == AtMost(sc, (Len(s) \div 12) + 1)
        sOff(j) == 8 + (12 * (j - 1))
        sShort(j) == Len(s) < sOff(j) + 12
        sBad(j) == sShort(j) \/ s[sOff(j) + 4] \notin {0, 32, 48, 64, 80, 96}
        badS == {j \in 1..nS : sBad(j)}
        nC == AtMost(cc, (Len(s) \div 16) + 1)
        cOff(j) == 8 + (12 * nS) + (16 * (j - 1))
        cShort(j) == Len(s) < cOff(j) + 16
        field(j, k) == SubSeq(s, cOff(j) + (4 * k) - 3, cOff(j) + (4 * k))
        badF(j) == {k \in 1..4 : FieldError(field(j, k)) # << >>}
        badC == {j \in 1..nC : cShort(j) \/ badF(j) # {}}
    IN  IF badS # {}
        THEN IF sShort(SetMin(badS)) THEN <<IoErr>>
             ELSE <<FmtErr("Unknown sprite type", <<s[sOff(SetMin(badS)) + 4]>>)>>
        ELSE IF nS = 0 THEN <<FmtErr("no sprites", << >>)>>
        ELSE IF badC # {}
        THEN IF cShort(SetMin(badC)) THEN <<IoErr>>
             ELSE FieldError(field(SetMin(badC), SetMin(badF(SetMin(badC)))))
        ELSE << >>

\* C1: whenever parse_lay_impl has ended it has returned a complete ParsedLay
\* or one error, the error being the one of the first failure in stage order
\* (header, sprite records in order, "no sprites", chunk records in order,
\* fields in order) and a ParsedLay being returned only where nothing fails.
C1_FirstFailureOrComplete ==
    (kind # "none" /\ Terminated) =>
        /\ result.tag \in {"Ok", "Err"}
        /\ result.tag = "Err" => <<result.err>> = Expected(ImplStream)
        /\ result.tag = "Ok" =>
            /\ Expected(ImplStream) = << >>
            /\ ToU32(Len(result.lay.sprites)) = sprite_count
            /\ ToU32(Len(result.lay.chunks)) = chunk_count

\* The part of C1 that concerns returned values alone: where parse_lay_impl
\* returns, it returns what the format prescribes.
ReturnsFirstFailureOrComplete ==
    (kind # "none" /\ Terminated /\ result.tag # "Panic") => C1_FirstFailureOrComplete
\* C2: every step that reads a 12-byte sprite record is decided by byte 3
\* alone: 0x00 appends a Base sprite, 0x20 a Sub, 0x30/0x40/0x60 a Dependent
\* with exact_type = byte 3 and depends_on = byte 1, 0x50 an Overlay, each with
\* id = byte 0 and whatever bytes 1 and 2 hold; any other byte 3 ends the
\* parse with the unknown-sprite-type error and appends nothing.
C2_ClassifiedByTypeByte ==
    [][(pc = "sprites" /\ Len(bf) >= 12 /\ bf' # bf) =>
        LET b == SubSeq(bf, 1, 12)
            t == b[4]
            expected ==
                CASE t = 0 -> [tag |-> "Base"]
                  [] t = 32 -> [tag |-> "Sub"]
                  [] t \in {48, 64, 96} -> [tag |-> "Dep", exact_type |-> t, depends_on |-> b[2]]
                  [] t = 80 -> [tag |-> "Overlay"]
                  [] OTHER -> [tag |-> "None"]
        IN  IF t \in {0, 32, 48, 64, 80, 96}
            THEN /\ result' = Running
                 /\ Len(sprites') = Len(sprites) + 1
                 /\ SubSeq(sprites', 1, Len(sprites)) = sprites
                 /\ sprites'[Len(sprites')].sprite_type = expected
                 /\ sprites'[Len(sprites')].id = b[1]
            ELSE /\ result' = [tag |-> "Err",
                               err |-> [kind |-> "Fmt", msg |-> "Unknown sprite type",
                                        arg |-> <<t>>]]
                 /\ sprites' = sprites]_vars

\* C2 witness: Dependent sprites of all three tags were accepted with a
\* non-zero byte 1 and an unexpected byte 2, which was only warned about.
C2_Witness ==
    /\ result.tag = "Ok"
    /\ \E k \in 1..Len(sprites) : sprites[k].sprite_type = Dep(96, 9)
    /\ \E k \in 1..Len(sprites) : sprites[k].sprite_type = Dep(48, 0)
    /\ \E k \in 1..Len(diag) : diag[k] = "W sprite head"

\* C3: every step that reads a 16-byte chunk record treats its four fields in
\* order: the first NaN or infinite field ends the parse with the non-finite
\* error, the first finite field with a fractional part ends it with the
\* fractional-part error, and otherwise the record is appended with every
\* field stored as the integer equal to the field's value.
C3_FieldsExactOrRejected ==
    [][(pc = "chunks" /\ Len(bf) >= 16 /\ bf' # bf) =>
        LET f(k) == SubSeq(bf, (4 * k) - 3, 4 * k)
            bad == {k \in 1..4 : FieldError(f(k)) # << >>}
        IN  IF bad # {}
            THEN /\ result' = [tag |-> "Err", err |-> FieldError(f(SetMin(bad)))[1]]
                 /\ chunks' = chunks
            ELSE /\ result' = Running
                 /\ Len(chunks') = Len(chunks) + 1
                 /\ IntegerIs(chunks'[Len(chunks')].img_x, f(1))
                 /\ IntegerIs(chunks'[Len(chunks')].img_y, f(2))
                 /\ IntegerIs(chunks'[Len(chunks')].chunk_x, f(3))
                 /\ IntegerIs(chunks'[Len(chunks')].chunk_y, f(4))]_vars

\* max + |min| + 32 as an exact natural, in 16-bit limbs <<carry, hi, lo>>
ExactSize(max, min) ==
    LET ah == IF min = I32_MIN THEN 32768 ELSE (-min) \div 65536
        al == IF min = I32_MIN THEN 0 ELSE (-min) % 65536
        lo == (max % 65536) + al + 32
        hi == (max \div 65536) + ah + (lo \div 65536)
    IN  <<hi \div 65536, hi % 65536, lo % 65536>>

\* C4: every returned ParsedLay has sprite_w = max_x + |min_x| + 32 and
\* sprite_h = max_y + |min_y| + 32 as exact integers, so both are at least 32.
C4_CanvasSizeExact ==
    result.tag = "Ok" =>
        LET lay == result.lay
            w == ExactSize(lay.sprite_xy_max[1], lay.sprite_xy_min[1])
            h == ExactSize(lay.sprite_xy_max[2], lay.sprite_xy_min[2])
        IN  /\ w[1] = 0 /\ lay.sprite_w = [hi |-> w[2], lo |-> w[3]]
            /\ h[1] = 0 /\ lay.sprite_h = [hi |-> h[2], lo |-> h[3]]
            /\ lay.sprite_w.hi > 0 \/ lay.sprite_w.lo >= 32
            /\ lay.sprite_h.hi > 0 \/ lay.sprite_h.lo >= 32

\* C5: after any number of chunk records the running bounding box is the
\* minimum and the maximum over 0 and the img_x (img_y) of the chunks read so
\* far, whatever their chunk_x and chunk_y; so it always contains the origin,
\* and the returned box is that box.
C5_BoxOverOriginAndImg ==
    pc \in {"chunks", "done"} =>
        LET xs == {0} \cup {chunks[k].img_x : k \in 1..Len(chunks)}
            ys == {0} \cup {chunks[k].img_y : k \in 1..Len(chunks)}
        IN  /\ sprite_max_x = SetMax(xs) /\ sprite_min_x = SetMin(xs)
            /\ sprite_max_y = SetMax(ys) /\ sprite_min_y = SetMin(ys)
            /\ sprite_min_x <= 0 /\ 0 <= sprite_max_x
            /\ sprite_min_y <= 0 /\ 0 <= sprite_max_y
            /\ result.tag = "Ok" =>
                /\ result.lay.sprite_xy_min = <<SetMin(xs), SetMin(ys)>>
                /\ result.lay.sprite_xy_max = <<SetMax(xs), SetMax(ys)>>

\* C5 witness: two chunks were read, one of them with chunk_x and chunk_y at
\* the ends of the i32 range, and the box spans -3..5 by -3..5.
C5_Witness ==
    /\ pc = "chunks" /\ Len(chunks) = 2
    /\ sprite_min_x = -3 /\ sprite_max_x = 5 /\ sprite_min_y = -3 /\ sprite_max_y = 5
    /\ \E k \in 1..2 : chunks[k].chunk_x = I32_MAX /\ chunks[k].chunk_y = I32_MIN

\* C6: after any number of sprite records, and in the returned ParsedLay, the
\* keys of sub_map are the ids of the Sub sprites read so far, each mapped to
\* the largest index of a Sub sprite with that id; every entry is the index of
\* a Sub sprite of the sequence.
C6_SubMapLastWins ==
    pc \in {"sprites", "chunks", "done"} =>
        LET subs == {k \in 1..Len(sprites) : sprites[k].sprite_type.tag = "Sub"}
            ids == {sprites[k].id : k \in subs}
        IN  /\ DOMAIN sub_map = ids
            /\ \A id \in ids :
                sub_map[id] = SetMax({k \in subs : sprites[k].id = id}) - 1
            /\ \A id \in DOMAIN sub_map :
                /\ sub_map[id] + 1 \in 1..Len(sprites)
                /\ sprites[sub_map[id] + 1].sprite_type.tag = "Sub"
            /\ result.tag = "Ok" =>
                (result.lay.sub_map = sub_map /\ result.lay.sprites = sprites)

\* C6 witness: a ParsedLay was returned for two Sub sprites with the same id,
\* and the id maps to the second.
C6_Witness ==
    /\ result.tag = "Ok" /\ Len(sprites) = 2
    /\ sprites[1].sprite_type.tag = "Sub" /\ sprites[2].sprite_type.tag = "Sub"
    /\ sprites[1].id = 5 /\ sprites[2].id = 5
    /\ result.lay.sub_map[5] = 1

\* C7: every returned ParsedLay has base_dep = Some(0) if its sprite at index
\* 0 is Base and None otherwise, wherever else a Base sprite occurs.
C7_BaseDepIffFirstIsBase ==
    result.tag = "Ok" =>
        result.lay.base_dep =
            IF result.lay.sprites[1].sprite_type.tag = "Base" THEN <<0>> ELSE << >>

\* C7 witness: sprites [Overlay, Base] were returned with base_dep = None.
C7_Witness ==
    /\ result.tag = "Ok" /\ Len(result.lay.sprites) = 2
    /\ result.lay.sprites[1].sprite_type.tag = "Overlay"
    /\ result.lay.sprites[2].sprite_type.tag = "Base"
    /\ result.lay.base_dep = << >>

\* C8: once a header with sprite_count = 0 has been read nothing more is read,
\* whatever chunk_count is and whatever follows, and the parse can only end
\* with the "no sprites" error; no returned ParsedLay has an empty sprite
\* sequence.
C8_ZeroSpritesRejected ==
    /\ (pc \notin {"peek", "rewind", "header"} /\ sprite_count = [hi |-> 0, lo |-> 0]) =>
        /\ pc = "sprites" /\ sprites = << >> /\ chunks = << >>
        /\ Len(c_buf) = 8 /\ Len(bf) = Len(ImplStream) - 8
        /\ Terminated =>
            result = [tag |-> "Err", err |-> [kind |-> "Fmt", msg |-> "no sprites", arg |-> << >>]]
    /\ result.tag = "Ok" => result.lay.sprites # << >>

\* C8 witness: "no sprites" was returned for a header with sprite_count = 0
\* and chunk_count = 65537 that valid records follow.
C8_Witness ==
    /\ result.tag = "Err" /\ result.err.kind = "Fmt" /\ result.err.msg = "no sprites"
    /\ chunk_count = [hi |-> 1, lo |-> 1]
    /\ Len(bf) >= 12

\* C9: once the detector has decided, it has taken the compressed path if and
\* only if the four bytes it peeked, read as a little-endian unsigned 32-bit
\* number, exceed 65536.
C9_CompressedIffAbove65536 ==
    diag # << >> =>
        LET b == SubSeq(file, start + 1, start + 4)
            above == \/ b[4] >= 128
                     \/ b[1] + (256 * b[2]) + (65536 * b[3]) + (16777216 * b[4]) > 65536
        IN  /\ (diag[1] = "I Compressed lay") = above
            /\ (diag[1] = "I Raw lay") = ~above
            /\ kind = "zlib" => above
            /\ kind = "raw" => ~above

\* C9 witness: a file whose first word is exactly 65536 went down the raw path.
C9_Witness ==
    /\ kind = "raw"
    /\ start = 0 /\ SubSeq(file, 1, 4) = <<0, 0, 1, 0>>
    /\ pc = "sprites"

\* C10: when the header reader starts, the file is at the position it had
\* when parse_lay was called.
C10_RewindsToStartPosition ==
    pc = "header" => fpos = start
====
